---- MODULE Spec2Model ----
(***************************************************************************)
(* ScraperCoordinator (src/src/scraper_coordinator.py): task descriptors   *)
(* on a heap, the registry of task ids, the thread pool executor with its  *)
(* FIFO work queue, caller threads running the public methods statement by *)
(* statement, and pool workers running _perform_scrape statement by        *)
(* statement.  No method of the class takes a lock, so every read and      *)
(* write of a descriptor field is a separate step.                         *)
(***************************************************************************)
EXTENDS Integers, Sequences, FiniteSets, TLC

\* ---------------------------------------------------------------- bounds
MaxTasks == 2          \* ScraperTask objects ever constructed
MaxRuns == 2           \* work items ever submitted to the executor

TaskIds == {"a", "b"}
Callers == {"c1", "c2"}     \* threads calling register, start, result, shutdown
Observers == {"r1"}         \* threads calling status
Threads == Callers \cup Observers
PageLimits == {1, 5}
Catalogs == {{}, {"akismet"}, {"akismet", "jetpack"}}
ErrorMessages == {"", "timeout"}

\* ------------------------------------------------------- program values
WorkerPoolSize == 2    \* ScraperCoordinator(worker_pool_size=2)
PENDING == "pending"
ACTIVE == "active"
FINISHED == "finished"
FAILED == "failed"
TaskState == {PENDING, ACTIVE, FINISHED, FAILED}

\* Optional[...] fields: None is the empty tuple, a value v is <<v>>
None == <<>>
Some(v) == <<v>>

\* the two crawler classes of src/src/scraper.py and a class whose
\* scrape_plugins takes max_pages (scraper_type is typed Any)
RepoScrapers == {"WeadownScraper", "PluginswpScraper"}
ScraperTypes == RepoScrapers \cup {"PagedScraper"}

\* keyword parameters of cls.scrape_plugins
ScrapeParams(cls) ==
  IF cls \in RepoScrapers THEN {} ELSE {"max_pages"}

TypeErrorMessage == "scrape_plugins() got an unexpected keyword argument 'max_pages'"

VARIABLES
  heap,       \* the ScraperTask objects, in construction order
  registry,   \* _task_registry: task id -> index in heap, 0 = no entry
  futures,    \* _futures: task id -> index in runs, 0 = no entry
  runs,       \* the work items handed to the executor, in submission order
  shut,       \* _executor._shutdown
  clock,      \* datetime.now(), counted in ticks
  pc,         \* position of each caller thread
  loc,        \* locals of each caller thread
  captures,   \* history: the catalogs the crawls returned, oldest first
  \* compare_plugins / compare_temas (src/comparadores)
  plugins_weadown,      \* rows of the weadown CSV: the list the pass iterates
  plugins_wp,           \* rows of the wp CSV: the list searched for matches
  mpc,                  \* position in compare_plugins
  processed,            \* rows of plugins_weadown the outer loop has handled
  matched_wp_indices,
  exactas,
  similares,
  desactualizados,
  faltantes,
  \* compare_versions (src/comparadores)
  v1,
  v2,
  estado,               \* what compare_versions(v1, v2) returned
  \* one crawl (src/src/scraper.py, src/scrapers)
  crawler,              \* which crawler runs
  max_pages,            \* the max_pages argument of a script crawler
  cpc,                  \* position in the crawl
  page_num,             \* pages, loads or links requested so far
  plugins,              \* the catalog being built
  requests,             \* history: the requests sent and what came back
  control,              \* the load-more element found on the first page
  page_urls,            \* number of pagination links found on the first page
  \* the web triggers (src/web_app.py)
  scraper_status,       \* scraper_status[id]["running"]
  active_processes,
  triggers,             \* the POST requests being handled
  backgrounds,          \* the threads running run_scraper_background
  \* ComparisonRunner (src/src/app.py)
  self_running,         \* self.running
  run_threads,          \* the threads running run_comparison
  run_calls             \* history: the calls of run_comparison_async and stop

coordinator == <<heap, registry, futures, runs, shut, clock, pc, loc, captures>>
matcher == <<plugins_weadown, plugins_wp, mpc, processed, matched_wp_indices,
             exactas, similares, desactualizados, faltantes>>
versions == <<v1, v2, estado>>
crawling == <<crawler, max_pages, cpc, page_num, plugins, requests, control,
              page_urls>>
triggering == <<scraper_status, active_processes, triggers, backgrounds>>
runner == <<self_running, run_threads, run_calls>>
others == <<crawling, triggering, runner>>
rest == <<matcher, versions, others>>

vars == <<coordinator, rest>>

\* ScraperTask(identifier, scraper_type, page_limit) with the dataclass defaults
ScraperTask(id, cls, pages) ==
  [identifier |-> id, scraper_type |-> cls, state |-> PENDING,
   result_data |-> {}, item_count |-> 0, completed_at |-> None,
   error_info |-> None, page_limit |-> pages]

NoLocals == [task_id |-> "a", task |-> 0, state |-> PENDING, items |-> 0,
             timestamp |-> None]

CoordinatorInit ==
  /\ heap = <<>>
  /\ registry = [i \in TaskIds |-> 0]
  /\ futures = [i \in TaskIds |-> 0]
  /\ runs = <<>>
  /\ shut = FALSE
  /\ clock = 0
  /\ pc = [c \in Threads |-> "idle"]
  /\ loc = [c \in Threads |-> NoLocals]
  /\ captures = <<>>

\* compare_plugins not called
MatcherOff ==
  /\ plugins_weadown = <<>>
  /\ plugins_wp = <<>>
  /\ mpc = "off"
  /\ processed = 0
  /\ matched_wp_indices = {}
  /\ exactas = <<>>
  /\ similares = <<>>
  /\ desactualizados = <<>>
  /\ faltantes = <<>>

\* compare_versions not called
VersionsOff ==
  /\ v1 = None
  /\ v2 = None
  /\ estado = None

\* no crawl started
CrawlingOff ==
  /\ crawler = "none"
  /\ max_pages = 0
  /\ cpc = "off"
  /\ page_num = 0
  /\ plugins = <<>>
  /\ requests = <<>>
  /\ control = "none"
  /\ page_urls = 0

\* the web application not serving
TriggeringOff ==
  /\ scraper_status = <<>>
  /\ active_processes = <<>>
  /\ triggers = <<>>
  /\ backgrounds = <<>>

\* no ComparisonRunner built
RunnerOff ==
  /\ self_running = FALSE
  /\ run_threads = <<>>
  /\ run_calls = <<>>

OthersOff == CrawlingOff /\ TriggeringOff /\ RunnerOff

Init == CoordinatorInit /\ MatcherOff /\ VersionsOff /\ OthersOff

\* ------------------------------------------------------------ register_task
RegisterStoreKeeping(reg, id, o) ==
  IF reg[id] # 0 THEN reg ELSE [reg EXCEPT ![id] = o]

RegisterStore(reg, id, o) == [reg EXCEPT ![id] = o]

register_task(c, id, cls, pages) ==
  /\ pc[c] = "idle"
  /\ Len(heap) < MaxTasks
  /\ heap' = Append(heap, ScraperTask(id, cls, pages))
  /\ registry' = RegisterStore(registry, id, Len(heap) + 1)
  /\ UNCHANGED <<futures, runs, shut, clock, pc, loc, captures, rest>>

\* ------------------------------------------------------------- execute_task
\* lines 54-60: membership test, registry read, test of task.state
MayStart(st) == st # ACTIVE

execute_task_check(c, id) ==
  /\ pc[c] = "idle"
  /\ IF registry[id] = 0
       THEN UNCHANGED <<pc, loc>>          \* raise ValueError
       ELSE IF ~MayStart(heap[registry[id]].state)
         THEN UNCHANGED <<pc, loc>>        \* return False
         ELSE /\ Len(runs) + Cardinality({d \in Threads : pc[d] = "execute_submit"}) < MaxRuns
              /\ pc' = [pc EXCEPT ![c] = "execute_submit"]
              /\ loc' = [loc EXCEPT ![c] = [NoLocals EXCEPT !.task_id = id,
                                                             !.task = registry[id]]]
  /\ UNCHANGED <<heap, registry, futures, runs, shut, clock, captures, rest>>

\* a _WorkItem for _perform_scrape(task); res0 and cnt0 record what the
\* descriptor held when the item was submitted
WorkItem(o) ==
  [task |-> o, pc |-> "queued", collected |-> {}, error |-> None,
   max_pages |-> 0, res0 |-> heap[o].result_data, cnt0 |-> heap[o].item_count]

\* lines 62-65: task.state = ACTIVE, executor.submit, _futures store
execute_task_submit(c) ==
  /\ pc[c] = "execute_submit"
  /\ LET o == loc[c].task IN
       /\ heap' = [heap EXCEPT ![o].state = ACTIVE]
       /\ IF shut
            THEN UNCHANGED <<runs, futures>>     \* submit raises RuntimeError
            ELSE /\ runs' = Append(runs, WorkItem(o))
                 /\ futures' = [futures EXCEPT ![loc[c].task_id] = Len(runs) + 1]
  /\ pc' = [pc EXCEPT ![c] = "idle"]
  /\ loc' = [loc EXCEPT ![c] = NoLocals]
  /\ UNCHANGED <<registry, shut, clock, captures, rest>>

\* ---------------------------------------------------------- the executor
Running(r) == r.pc \notin {"queued", "done"}
Live(r) == r.pc # "done"
Busy == Cardinality({e \in 1..Len(runs) : Running(runs[e])})

\* a worker takes the oldest queued work item (FIFO queue, max_workers threads)
WorkerTake(e) ==
  /\ runs[e].pc = "queued"
  /\ \A f \in 1..(e - 1) : runs[f].pc # "queued"
  /\ Busy < WorkerPoolSize
  /\ runs' = [runs EXCEPT ![e].pc = "call"]
  /\ UNCHANGED <<heap, registry, futures, shut, clock, pc, loc, captures, rest>>

\* ---------------------------------------------------------- _perform_scrape
\* lines 70-73: task.scraper_type().scrape_plugins(max_pages=task.page_limit),
\* then task.result_data = collected; an exception goes to line 78
ScrapeReturns(e, cat) ==
  LET o == runs[e].task IN
  /\ runs[e].pc = "call"
  /\ "max_pages" \in ScrapeParams(heap[o].scraper_type)
  /\ runs' = [runs EXCEPT ![e].pc = "count", ![e].collected = cat,
                          ![e].max_pages = heap[o].page_limit]
  /\ heap' = [heap EXCEPT ![o].result_data = cat]
  /\ captures' = Append(captures, [task |-> o, catalog |-> cat])
  /\ UNCHANGED <<registry, futures, shut, clock, pc, loc, rest>>

ScrapeRaises(e, msg) ==
  LET o == runs[e].task IN
  /\ runs[e].pc = "call"
  /\ IF "max_pages" \in ScrapeParams(heap[o].scraper_type)
       THEN runs' = [runs EXCEPT ![e].pc = "fail_state", ![e].error = Some(msg),
                                 ![e].max_pages = heap[o].page_limit]
       ELSE /\ msg = ""
            /\ runs' = [runs EXCEPT ![e].pc = "fail_state",
                                    ![e].error = Some(TypeErrorMessage)]
  /\ UNCHANGED <<heap, registry, futures, shut, clock, pc, loc, captures, rest>>

\* line 74: task.item_count = len(collected)
SetItemCount(e) ==
  /\ runs[e].pc = "count"
  /\ heap' = [heap EXCEPT ![runs[e].task].item_count = Cardinality(runs[e].collected)]
  /\ runs' = [runs EXCEPT ![e].pc = "state"]
  /\ UNCHANGED <<registry, futures, shut, clock, pc, loc, captures, rest>>

\* line 75: task.state = TaskState.FINISHED
SetFinished(e) ==
  /\ runs[e].pc = "state"
  /\ heap' = [heap EXCEPT ![runs[e].task].state = FINISHED]
  /\ runs' = [runs EXCEPT ![e].pc = "stamp"]
  /\ UNCHANGED <<registry, futures, shut, clock, pc, loc, captures, rest>>

\* line 76: task.completed_at = datetime.now().isoformat(); the work item ends
SetCompletedAt(e) ==
  /\ runs[e].pc = "stamp"
  /\ clock' = clock + 1
  /\ heap' = [heap EXCEPT ![runs[e].task].completed_at = Some(clock + 1)]
  /\ runs' = [runs EXCEPT ![e].pc = "done"]
  /\ UNCHANGED <<registry, futures, shut, pc, loc, captures, rest>>

FailedHeapClearing(h, o) == [h EXCEPT ![o].state = FAILED, ![o].result_data = {}]

FailedHeapAll(h, o) == [p \in DOMAIN h |-> [h[p] EXCEPT !.state = FAILED]]

\* line 79: task.state = TaskState.FAILED
FailedHeap(h, o) == [h EXCEPT ![o].state = FAILED]

SetFailed(e) ==
  /\ runs[e].pc = "fail_state"
  /\ heap' = FailedHeap(heap, runs[e].task)
  /\ runs' = [runs EXCEPT ![e].pc = "fail_error"]
  /\ UNCHANGED <<registry, futures, shut, clock, pc, loc, captures, rest>>

\* line 80: task.error_info = str(error); the work item ends
SetErrorInfo(e) ==
  /\ runs[e].pc = "fail_error"
  /\ heap' = [heap EXCEPT ![runs[e].task].error_info = runs[e].error]
  /\ runs' = [runs EXCEPT ![e].pc = "done"]
  /\ UNCHANGED <<registry, futures, shut, clock, pc, loc, captures, rest>>

\* ------------------------------------------------------------ get_task_info
\* lines 84-89: membership test, registry read, read of task.state
get_task_info_state(c, id) ==
  /\ pc[c] = "idle"
  /\ IF registry[id] = 0
       THEN UNCHANGED <<pc, loc>>          \* return None
       ELSE /\ pc' = [pc EXCEPT ![c] = "info_items"]
            /\ loc' = [loc EXCEPT ![c] = [NoLocals EXCEPT !.task_id = id,
                                            !.task = registry[id],
                                            !.state = heap[registry[id]].state]]
  /\ UNCHANGED <<heap, registry, futures, runs, shut, clock, captures, rest>>

\* line 90: read of task.item_count
get_task_info_items(c) ==
  /\ pc[c] = "info_items"
  /\ loc' = [loc EXCEPT ![c].items = heap[loc[c].task].item_count]
  /\ pc' = [pc EXCEPT ![c] = "info_timestamp"]
  /\ UNCHANGED <<heap, registry, futures, runs, shut, clock, captures, rest>>

\* line 91: read of task.completed_at
get_task_info_timestamp(c) ==
  /\ pc[c] = "info_timestamp"
  /\ loc' = [loc EXCEPT ![c].timestamp = heap[loc[c].task].completed_at]
  /\ pc' = [pc EXCEPT ![c] = "info_error"]
  /\ UNCHANGED <<heap, registry, futures, runs, shut, clock, captures, rest>>

\* lines 92-93: read of task.error_info, the dict is returned
TaskInfo(c) ==
  [state |-> loc[c].state, items |-> loc[c].items,
   timestamp |-> loc[c].timestamp, error |-> heap[loc[c].task].error_info]

get_task_info_error(c) ==
  /\ pc[c] = "info_error"
  /\ pc' = [pc EXCEPT ![c] = "idle"]
  /\ loc' = [loc EXCEPT ![c] = NoLocals]
  /\ UNCHANGED <<heap, registry, futures, runs, shut, clock, captures, rest>>

\* ----------------------------------------------------------- get_all_status
\* lines 95-100: get_task_info of every registered id, as a caller gets it
\* when no other thread runs during the call
get_all_status ==
  [id \in {t \in TaskIds : registry[t] # 0} |->
     [state |-> heap[registry[id]].state,
      items |-> heap[registry[id]].item_count,
      timestamp |-> heap[registry[id]].completed_at,
      error |-> heap[registry[id]].error_info]]

\* ------------------------------------------------------------ retrieve_data
RetrievedData(id) ==
  IF registry[id] = 0 THEN {} ELSE heap[registry[id]].result_data

retrieve_data(c, id) ==
  /\ pc[c] = "idle"
  /\ RetrievedData(id) \in Catalogs
  /\ UNCHANGED <<heap, registry, futures, runs, shut, clock, pc, loc, captures, rest>>

\* ----------------------------------------------------------------- shutdown
ShutdownQueueCancelling(rs) ==
  [e \in DOMAIN rs |->
     IF rs[e].pc = "queued" THEN [rs[e] EXCEPT !.pc = "done"] ELSE rs[e]]

\* _executor.shutdown(wait=False): the flag is set, queued items stay queued
ShutdownQueue(rs) == rs

shutdown(c) ==
  /\ pc[c] = "idle"
  /\ ~shut
  /\ shut' = TRUE
  /\ runs' = ShutdownQueue(runs)
  /\ UNCHANGED <<heap, registry, futures, clock, pc, loc, captures, rest>>

\* ------------------------------------------------------------ specification
CallerStep(c) ==
  \/ \E id \in TaskIds, cls \in ScraperTypes, pages \in PageLimits :
       register_task(c, id, cls, pages)
  \/ \E id \in TaskIds : execute_task_check(c, id)
  \/ execute_task_submit(c)
  \/ \E id \in TaskIds : retrieve_data(c, id)
  \/ shutdown(c)

ObserverStep(c) ==
  \/ \E id \in TaskIds : get_task_info_state(c, id)
  \/ get_task_info_items(c)
  \/ get_task_info_timestamp(c)
  \/ get_task_info_error(c)

WorkerStep(e) ==
  \/ WorkerTake(e)
  \/ \E cat \in Catalogs : ScrapeReturns(e, cat)
  \/ \E msg \in ErrorMessages : ScrapeRaises(e, msg)
  \/ SetItemCount(e)
  \/ SetFinished(e)
  \/ SetCompletedAt(e)
  \/ SetFailed(e)
  \/ SetErrorInfo(e)

\* concurrent callers and the pool workers
Next ==
  \/ \E c \in Callers : CallerStep(c)
  \/ \E e \in 1..Len(runs) : WorkerStep(e)

Spec == Init /\ [][Next]_vars

\* one caller, a thread polling status, and the pool workers
NextStatus ==
  \/ CallerStep("c1")
  \/ \E c \in Observers : ObserverStep(c)
  \/ \E e \in 1..Len(runs) : WorkerStep(e)

StatusSpec == Init /\ [][NextStatus]_vars

\* one caller issuing a sequence of calls, and the pool workers; the caller
\* finishes a call it is in, every pool worker keeps being scheduled, and
\* every crawl call returns or raises
NextSeq ==
  \/ CallerStep("c1")
  \/ \E e \in 1..Len(runs) : WorkerStep(e)

FairSpec ==
  /\ Init /\ [][NextSeq]_vars
  /\ WF_vars(execute_task_submit("c1"))
  /\ \A e \in 1..MaxRuns : WF_vars(e \in 1..Len(runs) /\ WorkerStep(e))

TypeOK ==
  /\ registry \in [TaskIds -> 0..Len(heap)]
  /\ Len(heap) <= MaxTasks
  /\ Len(runs) <= MaxRuns
  /\ Busy <= WorkerPoolSize
  /\ \A o \in 1..Len(heap) : heap[o].state \in TaskState

\* =============================================== src/comparadores
\* comparacion_plugins.py; comparacion_temas.py is the same code over the
\* theme files.  A str is the sequence of its characters.

MaxRows == 2     \* rows in each CSV file
MaxParts == 3    \* dot-separated components in a version

ACTUALIZADO == "ACTUALIZADO"
DESACTUALIZADO == "DESACTUALIZADO"
IGUAL == "IGUAL"
DESCONOCIDO == "DESCONOCIDO"
Estados == {ACTUALIZADO, DESACTUALIZADO, IGUAL, DESCONOCIDO}

Digits == {"0", "1", "2", "3", "4", "5", "6", "7", "8", "9"}
DigitValue ==
  [d \in Digits |->
     CASE d = "0" -> 0 [] d = "1" -> 1 [] d = "2" -> 2 [] d = "3" -> 3
       [] d = "4" -> 4 [] d = "5" -> 5 [] d = "6" -> 6 [] d = "7" -> 7
       [] d = "8" -> 8 [] d = "9" -> 9]

\* ---------------------------------------------------------------- similarity
\* str.lower() over the letters the names are drawn from
LowerChar(ch) ==
  CASE ch = "A" -> "a" [] ch = "B" -> "b" [] ch = "C" -> "c" [] OTHER -> ch

lower(s) == [k \in 1..Len(s) |-> LowerChar(s[k])]

\* length of the run a[i], a[i+1], ... = b[j], b[j+1], ... below ahi and bhi
RECURSIVE RunLength(_, _, _, _, _, _)
RunLength(a, b, i, j, ahi, bhi) ==
  IF i < ahi /\ j < bhi /\ a[i] = b[j]
    THEN 1 + RunLength(a, b, i + 1, j + 1, ahi, bhi)
    ELSE 0

\* SequenceMatcher.find_longest_match without junk: the longest block of
\* a[alo..ahi) and b[blo..bhi); of the longest ones the earliest in a, and
\* of those the earliest in b
find_longest_match(a, b, alo, ahi, blo, bhi) ==
  LET starts == (alo..(ahi - 1)) \X (blo..(bhi - 1))
      size(p) == RunLength(a, b, p[1], p[2], ahi, bhi)
      longest == {p \in starts : \A q \in starts : size(q) <= size(p)}
      first_a == {p \in longest : \A q \in longest : p[1] <= q[1]}
      first == CHOOSE p \in first_a : \A q \in first_a : p[2] <= q[2]
  IN  IF starts = {} \/ size(first) = 0
        THEN <<alo, blo, 0>>
        ELSE <<first[1], first[2], size(first)>>

\* SequenceMatcher.get_matching_blocks: the longest block, then the blocks
\* to its left and to its right; the sum of their sizes
RECURSIVE MatchedChars(_, _, _, _, _, _)
MatchedChars(a, b, alo, ahi, blo, bhi) ==
  LET m == find_longest_match(a, b, alo, ahi, blo, bhi)
      i == m[1]
      j == m[2]
      k == m[3]
  IN  IF k = 0 THEN 0
      ELSE k
           + (IF alo < i /\ blo < j
                THEN MatchedChars(a, b, alo, i, blo, j) ELSE 0)
           + (IF i + k < ahi /\ j + k < bhi
                THEN MatchedChars(a, b, i + k, ahi, j + k, bhi) ELSE 0)

\* SequenceMatcher.ratio: 2.0 * matches / (len(a) + len(b)), kept as the pair
\* <<numerator, denominator>>; the floats of two such quotients compare as
\* the quotients do
ratio(a, b) ==
  <<2 * MatchedChars(a, b, 1, Len(a) + 1, 1, Len(b) + 1), Len(a) + Len(b)>>

similarity(a, b) ==
  IF a = <<>> \/ b = <<>> THEN <<0, 1>> ELSE ratio(lower(a), lower(b))

GreaterOrEqual(x, y) == x[1] * y[2] >= y[1] * x[2] /\ x[1] > 0

Greater(x, y) == x[1] * y[2] > y[1] * x[2]

AtLeastStrict(x, y) == x[1] * y[2] > y[1] * x[2]

AtLeast(x, y) == x[1] * y[2] >= y[1] * x[2]

Equal(x, y) == x[1] * y[2] = y[1] * x[2]

Threshold == <<4, 5>>      \* 0.80
One == <<1, 1>>            \* 1.0
Zero == <<0, 1>>           \* 0.0

\* f"{x:.2%}": the percentage rounded to two decimals, in hundredths of a
\* percent
FormatPercent(x) == (2 * 10000 * x[1] + x[2]) \div (2 * x[2])

\* ------------------------------------------------------------ compare_versions
\* str.split('.')
RECURSIVE split(_)
split(s) ==
  IF \A k \in 1..Len(s) : s[k] # "."
    THEN <<s>>
    ELSE LET k == CHOOSE k \in 1..Len(s) :
                    s[k] = "." /\ \A j \in 1..(k - 1) : s[j] # "."
         IN  <<SubSeq(s, 1, k - 1)>> \o split(SubSeq(s, k + 1, Len(s)))

\* int(x) of a str made of digits and letters: ValueError (None) unless it
\* is a non-empty run of digits
RECURSIVE DecimalValue(_)
DecimalValue(x) ==
  IF x = <<>> THEN 0
  ELSE 10 * DecimalValue(SubSeq(x, 1, Len(x) - 1)) + DigitValue[x[Len(x)]]

int(x) ==
  IF x # <<>> /\ \A k \in 1..Len(x) : x[k] \in Digits
    THEN Some(DecimalValue(x))
    ELSE None

\* [int(x) for x in v.split('.')]: None when an int(x) raises
IntParts(v) ==
  LET xs == split(v)
  IN  IF \E k \in 1..Len(xs) : int(xs[k]) = None
        THEN None
        ELSE Some([k \in 1..Len(xs) |-> int(xs[k])[1]])

\* parts.extend([0] * n)
ExtendUnpadded(parts, n) == parts

Extend(parts, n) == parts \o [k \in 1..n |-> 0]

\* list < list
RECURSIVE ListLess(_, _)
ListLess(x, y) ==
  IF x = <<>> THEN y # <<>>
  ELSE IF y = <<>> THEN FALSE
  ELSE IF Head(x) = Head(y) THEN ListLess(Tail(x), Tail(y))
  ELSE Head(x) < Head(y)

Max(m, n) == IF m >= n THEN m ELSE n

\* `not v`: None or the empty str
FalsyNoneOnly(v) == v = None

Falsy(v) == v = None \/ v[1] = <<>>

\* lines 41-45: the except branch
FallbackUnknown(a, b) == DESCONOCIDO

Fallback(a, b) == IF a = b THEN IGUAL ELSE DESCONOCIDO

\* an argument is None or Some(str)
compare_versions(a, b) ==
  IF Falsy(a) \/ Falsy(b) THEN DESCONOCIDO
  ELSE LET ints1 == IntParts(a[1])
           ints2 == IntParts(b[1])
       IN  IF ints1 # None /\ ints2 # None
             THEN LET max_len == Max(Len(ints1[1]), Len(ints2[1]))
                      parts1 == Extend(ints1[1], max_len - Len(ints1[1]))
                      parts2 == Extend(ints2[1], max_len - Len(ints2[1]))
                  IN  IF ListLess(parts2, parts1) THEN ACTUALIZADO
                      ELSE IF ListLess(parts1, parts2) THEN DESACTUALIZADO
                      ELSE IGUAL
             ELSE Fallback(a, b)

\* the calls of compare_versions that are checked: each argument is None or
\* a str of up to MaxParts components joined by dots
VersionTokens == {<<>>, <<"0">>, <<"9">>, <<"1", "0">>, <<"a">>}

RECURSIVE Join(_)
Join(xs) ==
  IF Len(xs) = 1 THEN xs[1] ELSE xs[1] \o <<".">> \o Join(Tail(xs))

VersionStrings ==
  {Join(xs) : xs \in UNION {[1..n -> VersionTokens] : n \in 1..MaxParts}}

VersionInputs == {None} \cup {Some(v) : v \in VersionStrings}

VersionInit ==
  /\ CoordinatorInit
  /\ MatcherOff
  /\ OthersOff
  /\ v1 \in VersionInputs
  /\ v2 \in VersionInputs
  /\ estado = None

CallCompareVersions ==
  /\ estado = None
  /\ estado' = Some(compare_versions(v1, v2))
  /\ UNCHANGED <<coordinator, others, matcher, v1, v2>>

VersionNext == CallCompareVersions

VersionSpec == VersionInit /\ [][VersionNext]_vars

\* ------------------------------------------------------------ compare_plugins
\* the rows of the two CSV files: columns nombre and version (the url column
\* is copied to the output and nothing reads it)
Names == {<<"A", "B">>, <<"a", "b", "c">>, <<"b">>}
RowVersions == {<<"1", ".", "9">>, <<"1", ".", "1", "0">>}
Rows == [nombre : Names, version : RowVersions]
RowLists == UNION {[1..n -> Rows] : n \in 0..MaxRows}

\* the files are on disk, compare_plugins is entered
MatcherInit ==
  /\ CoordinatorInit
  /\ VersionsOff
  /\ OthersOff
  /\ plugins_weadown \in RowLists
  /\ plugins_wp \in RowLists
  /\ mpc = "load"
  /\ processed = 0
  /\ matched_wp_indices = {}
  /\ exactas = <<>>
  /\ similares = <<>>
  /\ desactualizados = <<>>
  /\ faltantes = <<>>

\* line 87: `if not plugins_wp or not plugins_weadown`
NothingToCompareNever(wp, wd) == FALSE

NothingToCompareInWeadown(wp, wd) == wd = <<>>

NothingToCompare(wp, wd) == wp = <<>> \/ wd = <<>>

\* lines 81-97: both files loaded; the function returns when there is nothing
\* to compare
LoadFiles ==
  /\ mpc = "load"
  /\ mpc' = IF NothingToCompare(plugins_wp, plugins_weadown)
              THEN "returned" ELSE "loop"
  /\ UNCHANGED <<coordinator, others, versions, plugins_weadown, plugins_wp,
                 processed, matched_wp_indices, exactas, similares,
                 desactualizados, faltantes>>

\* lines 110-111: `if idx in matched_wp_indices: continue`
SkipsNothing(idx, matched) == FALSE

Skips(idx, matched) == idx \in matched

\* lines 109-119: the scan of plugins_wp from row idx on; best is
\* <<best_index, best_similarity>>, rows are numbered from 1 and 0 is no row
\* similarity(a, b) of every two names of rows
Similarities == [a \in Names, b \in Names |-> similarity(a, b)]

RECURSIVE BestScan(_, _, _, _, _)
BestScan(wd_nombre, wp, matched, idx, best) ==
  IF idx > Len(wp) THEN best
  ELSE IF Skips(idx, matched)
    THEN BestScan(wd_nombre, wp, matched, idx + 1, best)
  ELSE LET sim == Similarities[wd_nombre, wp[idx].nombre]
       IN  IF Greater(sim, best[2])
             THEN BestScan(wd_nombre, wp, matched, idx + 1, <<idx, sim>>)
             ELSE BestScan(wd_nombre, wp, matched, idx + 1, best)

\* line 133: the 'estado' of a record
EstadoOfWeadown(version_wp, version_weadown) ==
  compare_versions(Some(version_weadown), Some(version_wp))

Estado(version_wp, version_weadown) ==
  compare_versions(Some(version_wp), Some(version_weadown))

\* lines 125-134; wd_index and wp_index are history fields: the rows the
\* record was built from
MatchRecord(wd, best_index, best_similarity) ==
  [nombre_wp |-> plugins_wp[best_index].nombre,
   nombre_weadown |-> plugins_weadown[wd].nombre,
   version_wp |-> plugins_wp[best_index].version,
   version_weadown |-> plugins_weadown[wd].version,
   similitud |-> FormatPercent(best_similarity),
   estado |-> Estado(plugins_wp[best_index].version,
                     plugins_weadown[wd].version),
   wd_index |-> wd,
   wp_index |-> best_index]

\* lines 146-151
MissingRecord(wd) ==
  [nombre_weadown |-> plugins_weadown[wd].nombre,
   version_weadown |-> plugins_weadown[wd].version,
   observacion |-> "No encontrado en WP",
   wd_index |-> wd]

\* lines 142-143: `if record['estado'] == "DESACTUALIZADO"`
IsOutdatedNever(record) == FALSE

IsOutdated(record) == record.estado = DESACTUALIZADO

\* lines 102-151: one turn of the loop over plugins_weadown
MatchRow ==
  /\ mpc = "loop"
  /\ processed < Len(plugins_weadown)
  /\ LET wd == processed + 1
         best == BestScan(plugins_weadown[wd].nombre, plugins_wp,
                          matched_wp_indices, 1, <<0, Zero>>)
         best_index == best[1]
         best_similarity == best[2]
         record == MatchRecord(wd, best_index, best_similarity)
     IN  IF AtLeast(best_similarity, Threshold)
           THEN /\ matched_wp_indices' = matched_wp_indices \cup {best_index}
                /\ IF Equal(best_similarity, One)
                     THEN /\ exactas' = Append(exactas, record)
                          /\ UNCHANGED similares
                     ELSE /\ similares' = Append(similares, record)
                          /\ UNCHANGED exactas
                /\ desactualizados' =
                     IF IsOutdated(record)
                       THEN Append(desactualizados, record)
                       ELSE desactualizados
                /\ UNCHANGED faltantes
           ELSE /\ faltantes' = Append(faltantes, MissingRecord(wd))
                /\ UNCHANGED <<matched_wp_indices, exactas, similares,
                               desactualizados>>
  /\ processed' = processed + 1
  /\ UNCHANGED <<coordinator, others, versions, plugins_weadown, plugins_wp, mpc>>

\* lines 153-164: the four lists are written out
SaveFiles ==
  /\ mpc = "loop"
  /\ processed = Len(plugins_weadown)
  /\ mpc' = "saved"
  /\ UNCHANGED <<coordinator, others, versions, plugins_weadown, plugins_wp,
                 processed, matched_wp_indices, exactas, similares,
                 desactualizados, faltantes>>

MatcherNext ==
  \/ LoadFiles
  \/ MatchRow
  \/ SaveFiles

MatcherSpec == MatcherInit /\ [][MatcherNext]_vars

\* ================================== src/src/scraper.py and src/scrapers
\* One crawl of one listing site.  A listing title is a sequence of words, a
\* page is a sequence of articles, and a catalog is the sequence of its
\* records in insertion order (a Python dict keeps insertion order, and an
\* assignment to a key it holds replaces the value in place).

MaxPages == 3       \* largest max_pages argument given to a script crawler
MaxArticles == 2    \* articles on one listing page

MAX_PAGES == 10     \* WeadownScraper.MAX_PAGES
MAX_LOADS == 10     \* PluginswpScraper.MAX_LOADS

Crawlers == {"WeadownScraper", "scrape_plugins_weadown", "PluginswpScraper"}
Classic == {"WeadownScraper", "scrape_plugins_weadown"}

\* v?\d+\.\d+(?:\.\d+)?(?:\.\d+)? on the words of the listing titles
VersionWords == {"v1.2", "v1.3"}

\* group(1) of the version pattern
VersionNumber(w) ==
  CASE w = "v1.2" -> "1.2"
    [] w = "v1.3" -> "1.3"

\* str.lower on one word
LowerWord(w) ==
  CASE w = "Akismet" -> "akismet"
    [] w = "Jetpack" -> "jetpack"
    [] w = "Pro" -> "pro"
    [] w = "Plugin" -> "plugin"
    [] OTHER -> w

\* _extract_version / extract_version: the first match in the title, and
\* None (the method) or "" (the script) without a match; a str v is written
\* Some(v) to stand beside None
extract_version(c, title) ==
  LET hits == SelectSeq(title, LAMBDA w : w \in VersionWords)
  IN  IF hits # <<>> THEN Some(VersionNumber(hits[1]))
      ELSE IF c = "scrape_plugins_weadown" THEN Some("") ELSE None

\* the suffix words each cleaner removes, matched with re.IGNORECASE
SuffixesOfMethod ==
  {"pro", "premium", "nulled", "free", "download", "latest", "update"}
SuffixesOfScript ==
  {"pro", "premium", "nulled", "free", "download", "wordpress", "plugin",
   "version"}

RECURSIVE LowerWords(_)
LowerWords(ws) ==
  IF ws = <<>> THEN <<>> ELSE <<LowerWord(Head(ws))>> \o LowerWords(Tail(ws))

\* which words of the title survive the two re.sub calls.  The method's
\* pattern \s+(pro|...)\s* needs white space before the word, so it leaves
\* a suffix word that opens the title; the script's \b(pro|...)\b removes it
\* anywhere.  (Titles here never have a word after a removed suffix, so the
\* method's pattern joins no two words.)
Kept(c, title) ==
  {i \in 1..Len(title) :
     /\ title[i] \notin VersionWords
     /\ IF c = "scrape_plugins_weadown"
        THEN LowerWord(title[i]) \notin SuffixesOfScript
        ELSE ~(i > 1 /\ LowerWord(title[i]) \in SuffixesOfMethod)}

RECURSIVE KeptWords(_, _, _)
KeptWords(title, kept, i) ==
  IF i > Len(title) THEN <<>>
  ELSE (IF i \in kept THEN <<title[i]>> ELSE <<>>)
       \o KeptWords(title, kept, i + 1)

\* _clean_plugin_name / clean_plugin_name: the name as its lower-case words;
\* the empty name is None for the method and "" for the script, both <<>>
clean_plugin_name(c, title) ==
  LowerWords(KeptWords(title, Kept(c, title), 1))

\* the articles of the listing pages, with their titles;
\* title <<>>: the article has no heading; href None: it has no link;
\* broken: parsing it raises
Article(t, h, b) == [title |-> t, href |-> h, broken |-> b]
Articles ==
  {Article(<<"Akismet", "v1.2">>, Some("/akismet"), FALSE),
   Article(<<"akismet", "Pro", "v1.3">>, Some("/akismet-pro"), FALSE),
   Article(<<"Jetpack">>, Some("/jetpack"), FALSE),
   Article(<<"Jetpack">>, None, FALSE),
   Article(<<"v1.2">>, Some("/changelog"), FALSE),
   Article(<<>>, Some("/about"), FALSE),
   Article(<<"Akismet", "v1.2">>, Some("/akismet"), TRUE)}

PageContents ==
  UNION {[1..n -> Articles] : n \in 0..MaxArticles}

\* the record an article gives
RecordOf(c, a) ==
  [name |-> clean_plugin_name(c, a.title),
   version |-> extract_version(c, a.title),
   url |-> IF a.href = None /\ c = "scrape_plugins_weadown" THEN Some("")
           ELSE a.href,
   raw_title |-> a.title]

\* whether the article's record is stored: the per-article try skips a
\* raising article and one without a heading; WeadownScraper wants a name
\* and a link, the other two a name only
Accepts(c, a) ==
  /\ ~a.broken
  /\ a.title # <<>>
  /\ clean_plugin_name(c, a.title) # <<>>
  /\ c = "WeadownScraper" => a.href # None

CatalogNames(catalog) == {catalog[i].name : i \in 1..Len(catalog)}

\* plugins[plugin_name] = {...}
Assign(catalog, r) ==
  IF r.name \in CatalogNames(catalog)
  THEN [i \in 1..Len(catalog) |->
          IF catalog[i].name = r.name THEN r ELSE catalog[i]]
  ELSE Append(catalog, r)

\* if plugin_name not in plugins: plugins[plugin_name] = {...}
AssignIfAbsent(catalog, r) ==
  IF r.name \in CatalogNames(catalog) THEN catalog ELSE Append(catalog, r)

\* how each crawler stores a record
Store(c, catalog, r) ==
  CASE c = "WeadownScraper" -> Assign(catalog, r)
    [] c = "PluginswpScraper" -> AssignIfAbsent(catalog, r)
    [] c = "scrape_plugins_weadown" -> Append(catalog, r)

\* for article in articles: ...
RECURSIVE ParseArticles(_, _, _)
ParseArticles(c, arts, catalog) ==
  IF arts = <<>> THEN catalog
  ELSE ParseArticles(c, Tail(arts),
                     IF Accepts(c, Head(arts))
                     THEN Store(c, catalog, RecordOf(c, Head(arts)))
                     ELSE catalog)

\* page_had_results after the loop over the articles
page_had_results(c, arts) == \E i \in 1..Len(arts) : Accepts(c, arts[i])

\* range(1, self.MAX_PAGES + 1) / range(1, max_pages + 1)
LastPage == IF crawler = "WeadownScraper" THEN MAX_PAGES ELSE max_pages

\* the outer except of the methods logs the exception, and the method goes
\* on to return plugins
OuterExceptMissing == "raised"
OuterExcept == "returned"

\* if not articles: break
NoArticlesNever(arts) == FALSE
NoArticles(arts) == arts = <<>>

Request(n, kind, outcome) == [page |-> n, kind |-> kind, outcome |-> outcome]

\* where the loop over the pages stands after page n went through
AfterPage(n) == IF n = LastPage THEN "returned" ELSE "pages"

CrawlInit ==
  /\ CoordinatorInit
  /\ MatcherOff
  /\ VersionsOff
  /\ TriggeringOff
  /\ RunnerOff
  /\ crawler \in Crawlers
  /\ max_pages \in (IF crawler = "scrape_plugins_weadown" THEN 1..MaxPages
                    ELSE {0})
  /\ cpc = IF crawler = "PluginswpScraper" THEN "first" ELSE "pages"
  /\ page_num = 0
  /\ plugins = <<>>
  /\ requests = <<>>
  /\ control = "none"
  /\ page_urls = 0

\* the request for the next page fails: a 404 breaks the script's loop at
\* once and is an HTTPError of raise_for_status in the method; in the method
\* a failure of page 1 is raised again into the outer except, one of a later
\* page breaks the loop
PageFails(outcome) ==
  /\ cpc = "pages"
  /\ crawler \in Classic
  /\ page_num < LastPage
  /\ page_num' = page_num + 1
  /\ requests' = Append(requests, Request(page_num + 1, "page", outcome))
  /\ cpc' = IF crawler = "WeadownScraper" /\ page_num + 1 = 1
            THEN OuterExcept ELSE "returned"
  /\ UNCHANGED <<coordinator, matcher, versions, triggering, runner, crawler,
                 max_pages, plugins, control, page_urls>>

\* the next page arrives with these articles
PageLoads(arts) ==
  /\ cpc = "pages"
  /\ crawler \in Classic
  /\ page_num < LastPage
  /\ page_num' = page_num + 1
  /\ requests' = Append(requests,
                        Request(page_num + 1, "page",
                                IF Len(arts) = 0 THEN "empty" ELSE "ok"))
  /\ IF NoArticles(arts)
     THEN /\ plugins' = plugins
          /\ cpc' = "returned"
     ELSE /\ plugins' = ParseArticles(crawler, arts, plugins)
          /\ cpc' = IF crawler = "WeadownScraper"
                       /\ ~page_had_results(crawler, arts)
                    THEN "returned" ELSE AfterPage(page_num + 1)
  /\ UNCHANGED <<coordinator, matcher, versions, triggering, runner, crawler,
                 max_pages, control, page_urls>>

\* ---------------------------------------------- PluginswpScraper.scrape_plugins
\* what the first page shows below its listing: a load-more element with its
\* data attributes, one without them, or none
Controls == {"load_more", "load_more_bare", "none"}

\* how many pagination links with 'page' in them the first page may carry
\* (0 also stands for a page without a pagination element)
LinkCounts == {0, 2, MAX_LOADS + 1}

\* page_urls[:self.MAX_LOADS]
Sliced(n) == IF n < MAX_LOADS THEN n ELSE MAX_LOADS

\* an article no earlier load had
Fresh(k) == Article(<<"Plugin", ToString(k)>>, Some("/plugin"), FALSE)

\* what a follow-up request may bring
FollowUps(k) ==
  {<<Fresh(k)>>,
   <<Article(<<"akismet", "Pro", "v1.3">>, Some("/akismet-pro"), FALSE)>>,
   <<Article(<<"Jetpack">>, None, FALSE), Fresh(k)>>}

\* a follow-up that raises or brings nothing to parse: the request fails, the
\* html is empty, or the JSON has an unexpected shape (caught by the except
\* around the whole loop)
Failures == {"transport", "empty", "malformed"}

\* if len(plugins) == initial_count: break
NoNewPluginsNever(before, after) == FALSE
NoNewPlugins(before, after) == Len(after) = Len(before)

\* the GET of the base URL fails
FirstPageFails ==
  /\ cpc = "first"
  /\ requests' = Append(requests, Request(1, "first", "transport"))
  /\ cpc' = OuterExcept
  /\ UNCHANGED <<coordinator, matcher, versions, triggering, runner, crawler,
                 max_pages, page_num, plugins, control, page_urls>>

\* the first page arrives; without the data attributes the load-more loop
\* breaks before its first request
FirstPage(arts, ctl, links) ==
  /\ cpc = "first"
  /\ requests' = Append(requests, Request(1, "first", "ok"))
  /\ plugins' = ParseArticles(crawler, arts, plugins)
  /\ control' = ctl
  /\ page_urls' = links
  /\ cpc' = CASE ctl = "load_more" -> "loads"
              [] ctl = "load_more_bare" -> "returned"
              [] ctl = "none" -> IF links = 0 THEN "returned" ELSE "links"
  /\ UNCHANGED <<coordinator, matcher, versions, triggering, runner, crawler,
                 max_pages, page_num>>

\* one follow-up of either loop, sent as request n of its kind
FollowUp(kind, last, result) ==
  /\ page_num < last
  /\ page_num' = page_num + 1
  /\ IF result \in Failures
     THEN /\ requests' =
               Append(requests, Request(page_num + 2, kind, result))
          /\ plugins' = plugins
          /\ cpc' = "returned"
     ELSE /\ requests' = Append(requests, Request(page_num + 2, kind, "ok"))
          /\ plugins' = ParseArticles(crawler, result, plugins)
          /\ cpc' = IF NoNewPlugins(plugins, plugins') \/ page_num + 1 = last
                    THEN "returned" ELSE cpc
  /\ UNCHANGED <<coordinator, matcher, versions, triggering, runner, crawler,
                 max_pages, control, page_urls>>

\* _handle_jetengine_loadmore: one pass of for load_num in range(MAX_LOADS)
LoadMore(result) ==
  /\ cpc = "loads"
  /\ FollowUp("load", MAX_LOADS, result)

\* _handle_pagination: one pass of the loop over page_urls[:MAX_LOADS]
Pagination(result) ==
  /\ cpc = "links"
  /\ result # "empty"
  /\ result # "malformed"
  /\ FollowUp("link", Sliced(page_urls), result)

CrawlNext ==
  \/ \E outcome \in {"notfound", "transport"} : PageFails(outcome)
  \/ \E arts \in PageContents : PageLoads(arts)
  \/ FirstPageFails
  \/ \E arts \in PageContents, ctl \in Controls, links \in LinkCounts :
       /\ ctl # "none" => links = 0
       /\ FirstPage(arts, ctl, links)
  \/ \E result \in Failures \cup FollowUps(page_num + 1) : LoadMore(result)
  \/ \E result \in Failures \cup FollowUps(page_num + 1) : Pagination(result)

CrawlSpec == CrawlInit /\ [][CrawlNext]_vars

\* a crawl is one call running in one thread: a step it can take, it takes
\* (every request has timeout=30)
FairCrawlSpec == CrawlSpec /\ WF_vars(CrawlNext)

\* ========================================================== src/web_app.py
\* The POST handlers that start a scraper or a comparison, and the thread each
\* of them starts.  Flask serves every request in a thread of its own.

MaxTriggers == 3    \* POST requests received

\* two of the six keys of scraper_status: a scraper and a comparison
ScraperIds == {"weadown_plugins", "compare_plugins"}

Handlers == 1..Len(triggers)
Backgrounds == 1..Len(backgrounds)

TriggerInit ==
  /\ CoordinatorInit
  /\ MatcherOff
  /\ VersionsOff
  /\ CrawlingOff
  /\ RunnerOff
  /\ scraper_status = [id \in ScraperIds |-> FALSE]
  /\ active_processes = [id \in ScraperIds |-> None]
  /\ triggers = <<>>
  /\ backgrounds = <<>>

\* a POST for the scraper arrives and its handler is entered
Post(id) ==
  /\ Len(triggers) < MaxTriggers
  /\ triggers' = Append(triggers, [id |-> id, pc |-> "if", status |-> "none"])
  /\ UNCHANGED <<coordinator, matcher, versions, crawling, runner,
                 scraper_status, active_processes, backgrounds>>

\* if not scraper_status[id]["running"]: ... else: already_running, 400
IfNotRunning(h) ==
  /\ triggers[h].pc = "if"
  /\ triggers' = [triggers EXCEPT ![h] =
                    IF scraper_status[triggers[h].id]
                    THEN [@ EXCEPT !.pc = "return",
                                   !.status = "already_running"]
                    ELSE [@ EXCEPT !.pc = "start"]]
  /\ UNCHANGED <<coordinator, matcher, versions, crawling, runner,
                 scraper_status, active_processes, backgrounds>>

\* thread = threading.Thread(target=run_scraper_background, ...);
\* thread.start(); return started
ThreadStart(h) ==
  /\ triggers[h].pc = "start"
  /\ backgrounds' = Append(backgrounds, [id |-> triggers[h].id, pc |-> "enter"])
  /\ triggers' = [triggers EXCEPT ![h].pc = "return", ![h].status = "started"]
  /\ UNCHANGED <<coordinator, matcher, versions, crawling, runner,
                 scraper_status, active_processes>>

\* run_scraper_background: scraper_status[scraper_id]["running"] = True
SetRunning(b) ==
  /\ backgrounds[b].pc = "enter"
  /\ scraper_status' = [scraper_status EXCEPT ![backgrounds[b].id] = TRUE]
  /\ backgrounds' = [backgrounds EXCEPT ![b].pc = "Popen"]
  /\ UNCHANGED <<coordinator, matcher, versions, crawling, runner,
                 active_processes, triggers>>

\* process = subprocess.Popen(...); active_processes[scraper_id] = process,
\* or Popen raises and the except leads to the finally
Popen(b, raises) ==
  /\ backgrounds[b].pc = "Popen"
  /\ IF raises
     THEN /\ backgrounds' = [backgrounds EXCEPT ![b].pc = "finally"]
          /\ UNCHANGED active_processes
     ELSE /\ backgrounds' = [backgrounds EXCEPT ![b].pc = "wait"]
          /\ active_processes' =
               [active_processes EXCEPT ![backgrounds[b].id] = Some(b)]
  /\ UNCHANGED <<coordinator, matcher, versions, crawling, runner,
                 scraper_status, triggers>>

\* process.wait() returns
Wait(b) ==
  /\ backgrounds[b].pc = "wait"
  /\ backgrounds' = [backgrounds EXCEPT ![b].pc = "finally"]
  /\ UNCHANGED <<coordinator, matcher, versions, crawling, runner,
                 scraper_status, active_processes, triggers>>

\* finally: running = False; del active_processes[scraper_id]
Finally(b) ==
  /\ backgrounds[b].pc = "finally"
  /\ scraper_status' = [scraper_status EXCEPT ![backgrounds[b].id] = FALSE]
  /\ active_processes' = [active_processes EXCEPT ![backgrounds[b].id] = None]
  /\ backgrounds' = [backgrounds EXCEPT ![b].pc = "ended"]
  /\ UNCHANGED <<coordinator, matcher, versions, crawling, runner, triggers>>

TriggerNext ==
  \/ \E id \in ScraperIds : Post(id)
  \/ \E h \in Handlers : IfNotRunning(h)
  \/ \E h \in Handlers : ThreadStart(h)
  \/ \E b \in Backgrounds : SetRunning(b)
  \/ \E b \in Backgrounds, raises \in BOOLEAN : Popen(b, raises)
  \/ \E b \in Backgrounds : Wait(b)
  \/ \E b \in Backgrounds : Finally(b)

TriggerSpec == TriggerInit /\ [][TriggerNext]_vars

\* ========================================================== src/src/app.py
\* ComparisonRunner: run_comparison_async and stop as called by one caller,
\* and the threads that run run_comparison.

MaxCalls == 3    \* calls of run_comparison_async and stop

RunThreads == 1..Len(run_threads)

RunnerInit ==
  /\ CoordinatorInit
  /\ MatcherOff
  /\ VersionsOff
  /\ CrawlingOff
  /\ TriggeringOff
  /\ self_running = FALSE
  /\ run_threads = <<>>
  /\ run_calls = <<>>

Call(name, result) == [call |-> name, result |-> result]

\* if self.running: return False; else start a thread on run_comparison and
\* return True
run_comparison_async ==
  /\ Len(run_calls) < MaxCalls
  /\ run_calls' = Append(run_calls, Call("run_comparison_async", ~self_running))
  /\ run_threads' = IF self_running THEN run_threads
                    ELSE Append(run_threads, "enter")
  /\ UNCHANGED <<coordinator, matcher, versions, crawling, triggering,
                 self_running>>

\* if self.running: self.running = False; return True; else return False
stop ==
  /\ Len(run_calls) < MaxCalls
  /\ run_calls' = Append(run_calls, Call("stop", self_running))
  /\ self_running' = FALSE
  /\ UNCHANGED <<coordinator, matcher, versions, crawling, triggering,
                 run_threads>>

\* run_comparison: self.running = True
RunningTrue(t) ==
  /\ run_threads[t] = "enter"
  /\ self_running' = TRUE
  /\ run_threads' = [run_threads EXCEPT ![t] = "scrape"]
  /\ UNCHANGED <<coordinator, matcher, versions, crawling, triggering,
                 run_calls>>

\* the two scrape_plugins calls
Scrape(t) ==
  /\ run_threads[t] = "scrape"
  /\ run_threads' = [run_threads EXCEPT ![t] = "compare"]
  /\ UNCHANGED <<coordinator, matcher, versions, crawling, triggering,
                 self_running, run_calls>>

\* self.comparator.compare(...), or it raises
Compare(t, raises) ==
  /\ run_threads[t] = "compare"
  /\ run_threads' = [run_threads EXCEPT ![t] =
                       IF raises THEN "except" ELSE "save"]
  /\ UNCHANGED <<coordinator, matcher, versions, crawling, triggering,
                 self_running, run_calls>>

\* self.db.save_comparison(differences), the notification, and
\* self.running = False; or save_comparison raises
Save(t, raises) ==
  /\ run_threads[t] = "save"
  /\ IF raises
     THEN /\ run_threads' = [run_threads EXCEPT ![t] = "except"]
          /\ UNCHANGED self_running
     ELSE /\ run_threads' = [run_threads EXCEPT ![t] = "ended"]
          /\ self_running' = FALSE
  /\ UNCHANGED <<coordinator, matcher, versions, crawling, triggering,
                 run_calls>>

\* except Exception: save the error; self.running = False
Except(t) ==
  /\ run_threads[t] = "except"
  /\ run_threads' = [run_threads EXCEPT ![t] = "ended"]
  /\ self_running' = FALSE
  /\ UNCHANGED <<coordinator, matcher, versions, crawling, triggering,
                 run_calls>>

RunnerNext ==
  \/ run_comparison_async
  \/ stop
  \/ \E t \in RunThreads : RunningTrue(t)
  \/ \E t \in RunThreads : Scrape(t)
  \/ \E t \in RunThreads, raises \in BOOLEAN : Compare(t, raises)
  \/ \E t \in RunThreads, raises \in BOOLEAN : Save(t, raises)
  \/ \E t \in RunThreads : Except(t)

RunnerSpec == RunnerInit /\ [][RunnerNext]_vars

\* ------------------------------------------------------------------ claims
Objects == 1..Len(heap)
RunIds == 1..Len(runs)
Registered(id) == registry[id] # 0
RunsOfId(id) == {e \in RunIds : heap[runs[e].task].identifier = id}
LiveRunsOfId(id) == {e \in RunsOfId(id) : Live(runs[e])}
Raised(r) == r.error # None
Ends(e) == runs[e].pc # "done" /\ runs'[e].pc = "done"

\* C1: for every task id at most one crawl execution (a work item queued or
\* running) of that id is live at any moment, under any interleaving of
\* execute_task calls.
C1_OneLiveExecution ==
  \A id \in TaskIds : Cardinality(LiveRunsOfId(id)) <= 1

\* C2: register_task on a task id whose state is ACTIVE is a no-op: the
\* registry entry of that id stays the descriptor the running crawl updates.
C2_RegisterActiveNoOp ==
  [][\A id \in TaskIds :
       (Registered(id) /\ heap[registry[id]].state = ACTIVE)
         => registry'[id] = registry[id]]_vars

\* C3: the state of a task id changes only PENDING -> ACTIVE, ACTIVE ->
\* FINISHED, ACTIVE -> FAILED, or to PENDING by a re-registration; FINISHED
\* and FAILED are left only by re-registration.
C3_Transition(id) ==
  LET s == heap[registry[id]].state
      t == heap'[registry'[id]].state
  IN  (Registered(id) /\ (registry'[id] # registry[id] \/ s # t))
        => \/ registry'[id] # registry[id] /\ t = PENDING
           \/ registry'[id] = registry[id] /\ s = PENDING /\ t = ACTIVE
           \/ registry'[id] = registry[id] /\ s = ACTIVE /\ t \in {FINISHED, FAILED}

C3_StateMachine == [][\A id \in TaskIds : C3_Transition(id)]_vars

\* C4: every task that execute_task moves to ACTIVE eventually reaches
\* FINISHED or FAILED, in every sequence of register, start and shutdown calls.
C4_ActiveLeadsToEnd ==
  \A o \in 1..MaxTasks :
    (o \in Objects /\ heap[o].state = ACTIVE)
      ~> (o \in Objects /\ heap[o].state \in {FINISHED, FAILED})

\* C5: when the crawl of a started task raises, the task ends in FAILED with
\* a non-absent error, and its result set and item count are what they were
\* when it was started.
C5_FailureKeepsResult ==
  [][\A e \in RunIds :
       (Raised(runs[e]) /\ Ends(e))
         => LET t == heap'[runs[e].task]
            IN  /\ t.state = FAILED
                /\ t.error_info # None
                /\ t.result_data = runs[e].res0
                /\ t.item_count = runs[e].cnt0]_vars

\* C6: a task registered with WeadownScraper or PluginswpScraper and page
\* limit p, once started, runs the crawl with maximum pages p and ends in
\* FINISHED with item_count the size of the captured catalog and completed_at set.
C6_RepoScraperSucceeds ==
  [][\A e \in RunIds :
       (Ends(e) /\ heap[runs[e].task].scraper_type \in RepoScrapers)
         => LET t == heap'[runs[e].task]
            IN  /\ runs'[e].max_pages = t.page_limit
                /\ t.state = FINISHED
                /\ t.item_count = Cardinality(t.result_data)
                /\ t.completed_at # None]_vars

\* C7: a snapshot returned by get_task_info never shows FINISHED with an
\* absent completion time, nor ACTIVE together with the item count of the
\* run that is finishing.
TornInfo(c) ==
  LET i == TaskInfo(c) IN
  \/ i.state = FINISHED /\ i.timestamp = None
  \/ /\ i.state = ACTIVE
     /\ \E e \in RunIds :
          /\ runs[e].task = loc[c].task
          /\ runs[e].pc \in {"state", "stamp", "done"}
          /\ i.items = Cardinality(runs[e].collected)
          /\ i.items # runs[e].cnt0

C7_NoTornSnapshot ==
  [][\A c \in Observers :
       (pc[c] = "info_error" /\ pc'[c] = "idle") => ~TornInfo(c)]_vars

\* C8 as stated, at the calls the contract of register allows: after
\* register_task on an id whose descriptor is not ACTIVE, retrieve_data(id) is
\* still the catalog of the most recent successful crawl of that id (the
\* empty catalog if there is none).
LastCatalog(evs) == IF evs = <<>> THEN {} ELSE evs[Len(evs)].catalog
CapturesOfId(id) == SelectSeq(captures, LAMBDA ev : heap[ev.task].identifier = id)
CapturesOfTask(o) == SelectSeq(captures, LAMBDA ev : ev.task = o)

C8_LastSuccessOfId ==
  [][\A id \in TaskIds :
       (/\ Registered(id)
        /\ heap[registry[id]].state # ACTIVE
        /\ registry'[id] # registry[id])
         => RetrievedData(id)' = LastCatalog(CapturesOfId(id))']_vars

\* C8 amended: retrieve_data(id) is the catalog of the most recent successful
\* crawl run on the descriptor now registered under id, the empty catalog if
\* there is none or id is not registered; a failed crawl never replaces it.
C8_LastSuccessOfDescriptor ==
  \A id \in TaskIds :
    RetrievedData(id) =
      IF Registered(id) THEN LastCatalog(CapturesOfTask(registry[id])) ELSE {}

C8_FailureAfterSuccess ==
  \E id \in TaskIds :
    /\ Registered(id)
    /\ RetrievedData(id) # {}
    /\ heap[registry[id]].state = FAILED
    /\ \E f \in RunIds :
         runs[f].task = registry[id] /\ runs[f].pc = "done" /\ Raised(runs[f])

\* C9: once shutdown has been called no new work item is accepted, no queued
\* work item is dropped, and every work item submitted before it still runs
\* to the end of _perform_scrape.
C9_Safety ==
  [][/\ shut => Len(runs') = Len(runs)
     /\ \A e \in RunIds :
          runs[e].pc = "queued" => runs'[e].pc \in {"queued", "call"}]_vars

C9_ShutdownKeepsSubmitted ==
  /\ C9_Safety
  /\ \A e \in 1..MaxRuns :
       (shut /\ e \in RunIds) ~> (e \in RunIds /\ runs[e].pc = "done")

C9_ShutdownWithQueuedRun ==
  shut /\ \E e \in RunIds : runs[e].pc = "queued"

\* C10: a step of the start or of the crawl of one task changes the
\* descriptor of no other task, nor the registry; the steps of a failing
\* crawl change no other work item and do not stop the executor, and its
\* last step frees the worker.
C10_StartFrame(c) ==
  (pc[c] = "execute_submit" /\ pc'[c] = "idle")
    => /\ \A p \in Objects \ {loc[c].task} : heap'[p] = heap[p]
       /\ registry' = registry

C10_CrawlFrame(e) ==
  (runs'[e] # runs[e])
    => /\ \A p \in Objects \ {runs[e].task} : heap'[p] = heap[p]
       /\ registry' = registry
       /\ \A f \in RunIds \ {e} : runs'[f] = runs[f]
       /\ shut' = shut
       /\ (Raised(runs[e]) /\ Ends(e)) => Busy' = Busy - 1

C10_Independent ==
  [][/\ \A c \in Callers : C10_StartFrame(c)
     /\ Len(runs') = Len(runs) => \A e \in RunIds : C10_CrawlFrame(e)]_vars

C10_OtherTaskCompletes ==
  \E e, f \in RunIds :
    /\ e < f
    /\ heap[runs[e].task].identifier # heap[runs[f].task].identifier
    /\ runs[e].pc = "done" /\ Raised(runs[e])
    /\ runs[f].pc = "done" /\ ~Raised(runs[f])
    /\ heap[runs[e].task].state = FAILED
    /\ heap[runs[f].task].state = FINISHED

\* C11: a register_task(id, ...) step taken while id is unregistered, or while
\* its descriptor is not ACTIVE, leaves id in get_all_status() with state
\* PENDING, item count 0, no completion time and no error, whatever the
\* descriptor it replaces held
C11_Registers(id) ==
  /\ Len(heap') = Len(heap) + 1
  /\ heap'[Len(heap')].identifier = id

C11_RegisterGivesPending ==
  [][\A id \in TaskIds :
       (C11_Registers(id)
          /\ (registry[id] = 0 \/ heap[registry[id]].state # ACTIVE))
       => /\ id \in DOMAIN get_all_status'
          /\ get_all_status'[id] = [state |-> PENDING, items |-> 0,
                                     timestamp |-> None, error |-> None]]_vars

\* an id whose earlier descriptor finished with items, or failed with a
\* message, is registered again and shows the fresh snapshot
C11_ReplacedUsedDescriptor ==
  \E id \in TaskIds : \E p \in Objects :
    /\ heap[p].identifier = id
    /\ registry[id] > p
    /\ \/ heap[p].state = FINISHED /\ heap[p].item_count > 0
       \/ heap[p].state = FAILED /\ heap[p].error_info # None
    /\ get_all_status[id].state = PENDING
    /\ get_all_status[id].items = 0

\* ------------------------------------------------- claims on the matcher
PassEnded == mpc \in {"returned", "saved"}
MatchRecords == exactas \o similares
Candidates == 1..Len(plugins_wp)
References == 1..Len(plugins_weadown)

\* C12: no two of the records written to the exact and similar lists were
\* built from the same row of plugins_wp
C12_CandidateConsumedOnce ==
  \A m, n \in 1..Len(MatchRecords) :
    m # n => MatchRecords[m].wp_index # MatchRecords[n].wp_index

\* a pass over files that repeat a name on both sides, both rows matched
C12_DuplicateNamesMatched ==
  /\ mpc = "saved"
  /\ Len(plugins_weadown) = 2
  /\ Len(plugins_wp) = 2
  /\ plugins_weadown[1].nombre = plugins_weadown[2].nombre
  /\ plugins_wp[1].nombre = plugins_wp[2].nombre
  /\ Len(MatchRecords) = 2

\* C13: when neither file is empty every handled row of plugins_weadown has
\* exactly one record among the exact, similar and missing lists: an exact
\* one iff the largest similarity to a row of plugins_wp not consumed by an
\* earlier row is 1.0, a similar one iff it is in [0.80, 1.0), a missing one
\* (carrying no wp version) iff it is below 0.80; a finished pass has handled
\* every row
C13_Unconsumed(r) ==
  {j \in Candidates :
     \A k \in 1..Len(MatchRecords) :
       MatchRecords[k].wd_index < r => MatchRecords[k].wp_index # j}

C13_Scores(r) ==
  {Similarities[plugins_weadown[r].nombre, plugins_wp[j].nombre] :
     j \in C13_Unconsumed(r)} \cup {<<0, 1>>}

C13_Best(r) ==
  CHOOSE x \in C13_Scores(r) :
    \A y \in C13_Scores(r) : x[1] * y[2] >= y[1] * x[2]

C13_Count(list, r) ==
  Cardinality({k \in 1..Len(list) : list[k].wd_index = r})

C13_OneClassPerReference ==
  (plugins_weadown # <<>> /\ plugins_wp # <<>>) =>
    /\ \A r \in 1..processed :
         LET best == C13_Best(r)
         IN  /\ C13_Count(exactas, r) + C13_Count(similares, r)
                  + C13_Count(faltantes, r) = 1
             /\ C13_Count(exactas, r) = 1 <=> best[1] = best[2]
             /\ C13_Count(similares, r) = 1
                  <=> (5 * best[1] >= 4 * best[2] /\ best[1] < best[2])
             /\ C13_Count(faltantes, r) = 1 <=> 5 * best[1] < 4 * best[2]
    /\ \A k \in 1..Len(faltantes) : "version_wp" \notin DOMAIN faltantes[k]
    /\ PassEnded => processed = Len(plugins_weadown)

\* a finished pass with a similar row at exactly 0.80 and a missing row whose
\* only close candidate was consumed by the row before it
C13_SimilarThenMissing ==
  /\ mpc = "saved"
  /\ Len(similares) = 1
  /\ similares[1].similitud = 8000
  /\ Len(faltantes) = 1
  /\ similares[1].wd_index < faltantes[1].wd_index
  /\ \E j \in Candidates :
       /\ j = similares[1].wp_index
       /\ Similarities[plugins_weadown[faltantes[1].wd_index].nombre,
                       plugins_wp[j].nombre][1] * 5
            >= 4 * Similarities[plugins_weadown[faltantes[1].wd_index].nombre,
                                plugins_wp[j].nombre][2]

\* the order of versions whose components are integers: component k of a
\* version, 0 past its end; x is ahead of y when the first component in which
\* they differ is larger in x
VersionComponent(parts, k) == IF k <= Len(parts) THEN parts[k] ELSE 0

VersionAhead(x, y) ==
  LET xs == IntParts(x)[1]
      ys == IntParts(y)[1]
  IN  \E k \in 1..Max(Len(xs), Len(ys)) :
        /\ VersionComponent(xs, k) > VersionComponent(ys, k)
        /\ \A j \in 1..(k - 1) :
             VersionComponent(xs, j) = VersionComponent(ys, j)

\* C14 as claimed: in every match record estado is ACTUALIZADO iff the
\* version of the plugins_weadown row (the list the loop iterates) is ahead
\* of the version of the matched plugins_wp row, DESACTUALIZADO iff it is
\* behind, IGUAL iff neither
C14_FreshnessOfReference ==
  \A k \in 1..Len(MatchRecords) :
    LET wd == MatchRecords[k].version_weadown
        wp == MatchRecords[k].version_wp
        wd_ahead == VersionAhead(wd, wp)
        wp_ahead == VersionAhead(wp, wd)
    IN  /\ MatchRecords[k].estado = ACTUALIZADO <=> wd_ahead
        /\ MatchRecords[k].estado = DESACTUALIZADO <=> wp_ahead
        /\ MatchRecords[k].estado = IGUAL <=> (~wd_ahead /\ ~wp_ahead)

\* C14 amended: in every match record estado is ACTUALIZADO iff the version
\* of the matched plugins_wp row is ahead of the version of the
\* plugins_weadown row, DESACTUALIZADO iff it is behind, IGUAL iff neither
C14_FreshnessOfCandidate ==
  \A k \in 1..Len(MatchRecords) :
    LET wd == MatchRecords[k].version_weadown
        wp == MatchRecords[k].version_wp
        wd_ahead == VersionAhead(wd, wp)
        wp_ahead == VersionAhead(wp, wd)
    IN  /\ MatchRecords[k].estado = ACTUALIZADO <=> wp_ahead
        /\ MatchRecords[k].estado = DESACTUALIZADO <=> wd_ahead
        /\ MatchRecords[k].estado = IGUAL <=> (~wd_ahead /\ ~wp_ahead)

\* a finished pass matched a wp row at 1.9 to a weadown row at 1.10 and
\* listed the record as outdated
C14_OlderInWp ==
  /\ mpc = "saved"
  /\ \E k \in 1..Len(MatchRecords) :
       /\ MatchRecords[k].version_wp = <<"1", ".", "9">>
       /\ MatchRecords[k].version_weadown = <<"1", ".", "1", "0">>
       /\ MatchRecords[k].estado = DESACTUALIZADO
       /\ \E d \in 1..Len(desactualizados) :
            desactualizados[d] = MatchRecords[k]

\* ------------------------------------------- claims on compare_versions
Called == estado # None
Present(v) == v # None /\ v[1] # <<>>

\* a str of one or more runs of digits separated by single dots
DottedIntegers(s) ==
  /\ s # <<>>
  /\ \A k \in 1..Len(s) : s[k] \in Digits \cup {"."}
  /\ s[1] # "." /\ s[Len(s)] # "."
  /\ \A k \in 1..(Len(s) - 1) : ~(s[k] = "." /\ s[k + 1] = ".")

\* C15: for versions that are present (not None and not the empty str that
\* extract_version returns for no version), compare_versions(a, b) is
\* ACTUALIZADO exactly when compare_versions(b, a) is DESACTUALIZADO, and
\* compare_versions(a, a) is IGUAL, whether or not the components are integers
C15_AntisymmetricReflexive ==
  (Called /\ Present(v1) /\ Present(v2)) =>
    /\ estado[1] = ACTUALIZADO <=> compare_versions(v2, v1) = DESACTUALIZADO
    /\ estado[1] = DESACTUALIZADO <=> compare_versions(v2, v1) = ACTUALIZADO
    /\ v1 = v2 => estado[1] = IGUAL

\* a version with a component that is not an integer was compared to itself
C15_NonIntegerComparedToItself ==
  /\ Called
  /\ Present(v1)
  /\ v1 = v2
  /\ ~DottedIntegers(v1[1])
  /\ estado = Some(IGUAL)

\* C16: for two versions made of non-negative integer components the result
\* is the order of the component vectors, the shorter padded with zeros:
\* ACTUALIZADO when the first is ahead, DESACTUALIZADO when it is behind,
\* IGUAL otherwise
C16_NumericPaddedOrder ==
  (Called /\ Present(v1) /\ Present(v2)
     /\ DottedIntegers(v1[1]) /\ DottedIntegers(v2[1])) =>
    estado[1] = IF VersionAhead(v1[1], v2[1]) THEN ACTUALIZADO
                ELSE IF VersionAhead(v2[1], v1[1]) THEN DESACTUALIZADO
                ELSE IGUAL

\* x.10 was compared to x.9, where the str "10" sorts before the str "9"
C16_TenAgainstNine ==
  /\ Called
  /\ v1 = Some(<<"9", ".", "1", "0">>)
  /\ v2 = Some(<<"9", ".", "9">>)
  /\ estado = Some(ACTUALIZADO)

\* C17: every call returns one of the four results: DESCONOCIDO when either
\* version is None or empty; when both are present and some component of
\* either is not an integer, IGUAL if the two strs are equal and DESCONOCIDO
\* otherwise
C17_TotalWithFallback ==
  /\ compare_versions(v1, v2) \in Estados
  /\ Called =>
       /\ estado[1] = compare_versions(v1, v2)
       /\ (~Present(v1) \/ ~Present(v2)) => estado[1] = DESCONOCIDO
       /\ (Present(v1) /\ Present(v2)
             /\ (~DottedIntegers(v1[1]) \/ ~DottedIntegers(v2[1])))
          => estado[1] = IF v1 = v2 THEN IGUAL ELSE DESCONOCIDO

\* a version with a non-integer component was compared to a different,
\* well-formed one
C17_FallbackOnOneSide ==
  /\ Called
  /\ v1 = Some(<<"9", ".", "a">>)
  /\ v2 = Some(<<"9", ".", "9">>)
  /\ estado = Some(DESCONOCIDO)

\* ------------------------------------------ claims on empty files and output
\* C18: a pass over files of which one is empty ends, and has appended no
\* record to the exact, similar, outdated or missing list
C18_EmptyFileNoRecord ==
  (plugins_weadown = <<>> \/ plugins_wp = <<>>) =>
    /\ mpc \in {"load", "returned"}
    /\ exactas = <<>>
    /\ similares = <<>>
    /\ desactualizados = <<>>
    /\ faltantes = <<>>

\* a pass over a non-empty plugins_weadown and an empty plugins_wp returned
C18_ReturnedOnEmptyWp ==
  /\ mpc = "returned"
  /\ plugins_weadown # <<>>
  /\ plugins_wp = <<>>

\* C19 as claimed: a pass over an empty plugins_wp and a non-empty
\* plugins_weadown ends with one missing record for each row of
\* plugins_weadown and no exact or similar record
C19_EmptyCandidateAllMissing ==
  (PassEnded /\ plugins_wp = <<>> /\ plugins_weadown # <<>>) =>
    /\ \A r \in References :
         Cardinality({k \in 1..Len(faltantes) :
                        faltantes[k].wd_index = r}) = 1
    /\ Len(faltantes) = Len(plugins_weadown)
    /\ MatchRecords = <<>>

\* C19 amended: a pass over an empty plugins_wp and a non-empty
\* plugins_weadown ends without handling a row: it has no missing record
\* and no exact or similar record
C19_EmptyCandidateNothingReported ==
  (PassEnded /\ plugins_wp = <<>> /\ plugins_weadown # <<>>) =>
    /\ processed = 0
    /\ faltantes = <<>>
    /\ MatchRecords = <<>>

\* such a pass over two rows of plugins_weadown has ended
C19_TwoRowsAgainstEmptyWp ==
  /\ PassEnded
  /\ plugins_wp = <<>>
  /\ Len(plugins_weadown) = 2

\* C20: when a pass has written its output every row of plugins_wp is in
\* it, in a match record or in a record of its own
C20_Reported(j) ==
  \/ \E k \in 1..Len(MatchRecords) : MatchRecords[k].wp_index = j
  \/ \E k \in 1..Len(desactualizados) : desactualizados[k].wp_index = j
  \/ \E k \in 1..Len(faltantes) :
       /\ "nombre_wp" \in DOMAIN faltantes[k]
       /\ faltantes[k].nombre_wp = plugins_wp[j].nombre

C20_EveryCandidateReported ==
  mpc = "saved" => \A j \in Candidates : C20_Reported(j)

\* ------------------------------------------- claims on the choice of a match
\* C26: the wp row of every match record is, among the wp rows no earlier
\* weadown row consumed, one of the largest similarity to the record's
\* weadown row and the first of those in plugins_wp; it was not consumed by
\* an earlier weadown row, however similar it is to this one
C26_Score(r, j) ==
  Similarities[plugins_weadown[r].nombre, plugins_wp[j].nombre]

C26_FirstBestUnconsumed ==
  \A k \in 1..Len(MatchRecords) :
    LET r == MatchRecords[k].wd_index
        j == MatchRecords[k].wp_index
        free == C13_Unconsumed(r)
    IN  /\ j \in free
        /\ \A i \in free :
             C26_Score(r, j)[1] * C26_Score(r, i)[2]
               >= C26_Score(r, i)[1] * C26_Score(r, j)[2]
        /\ \A i \in free :
             (C26_Score(r, j)[1] * C26_Score(r, i)[2]
                = C26_Score(r, i)[1] * C26_Score(r, j)[2]) => j <= i

\* a finished pass: the first weadown row had two wp rows of equal best
\* similarity below 1.0 and took the first; the second weadown row equals
\* that wp row by name and was given the other one
C26_TieThenTaken ==
  /\ mpc = "saved"
  /\ Len(plugins_wp) = 2
  /\ Len(similares) = 1
  /\ similares[1].wd_index = 1
  /\ similares[1].wp_index = 1
  /\ C26_Score(1, 1) = C26_Score(1, 2)
  /\ Len(exactas) = 1
  /\ exactas[1].wd_index = 2
  /\ exactas[1].wp_index = 2
  /\ C26_Score(2, 1)[1] = C26_Score(2, 1)[2]

\* C29: the outdated list holds exactly the records of the exact and similar
\* lists whose estado is DESACTUALIZADO, each once: it holds no record of a
\* missing row and leaves no such record out
C29_OutdatedAreTheOutdatedMatches ==
  /\ {desactualizados[d] : d \in 1..Len(desactualizados)}
       = {MatchRecords[k] : k \in {n \in 1..Len(MatchRecords) :
                                     MatchRecords[n].estado = DESACTUALIZADO}}
  /\ Len(desactualizados)
       = Cardinality({n \in 1..Len(MatchRecords) :
                        MatchRecords[n].estado = DESACTUALIZADO})
  /\ \A d \in 1..Len(desactualizados) :
       \A m \in 1..Len(faltantes) :
         desactualizados[d].wd_index # faltantes[m].wd_index

\* a finished pass with a match listed as outdated, a match that is not, and
\* nothing else in the outdated list
C29_OneOfTwoMatchesOutdated ==
  /\ mpc = "saved"
  /\ Len(MatchRecords) = 2
  /\ Len(desactualizados) = 1
  /\ \E k \in 1..2 : MatchRecords[k].estado = IGUAL

\* ------------------------------------------------------ claims on the crawls
\* a step that sends one request
Sends == Len(requests') = Len(requests) + 1
Sent == requests'[Len(requests')]
CatalogRecords(catalog) == {catalog[i] : i \in 1..Len(catalog)}

\* C21: a classic-pagination crawl stops right after a page that yields no new
\* record: when every record of a fetched page is in the catalog already, no
\* further page is fetched, whatever the page limit.
C21_StopsAfterPageWithoutNewRecord ==
  [][(/\ crawler \in Classic
      /\ Sends
      /\ Sent.outcome = "ok"
      /\ CatalogRecords(plugins') = CatalogRecords(plugins))
     => cpc' = "returned"]_vars

\* C22: a crawl never raises to its caller, and when the fetch of a page after
\* the first fails, it returns with the catalog it had gathered and fetches no
\* later page.
C22_NeverRaisesKeepsPartial ==
  /\ [](cpc # "raised")
  /\ [][(/\ Sends
         /\ Sent.page > 1
         /\ Sent.outcome \in {"notfound", "transport"})
        => (plugins' = plugins /\ cpc' = "returned")]_vars

\* a crawl that gathered records from two pages, lost the third to a transport
\* error and returned what it had
C22_ThirdPageLost ==
  /\ cpc = "returned"
  /\ Len(requests) = 3
  /\ requests[3].outcome = "transport"
  /\ Len(plugins) >= 2

\* C23: when the fetch of page 1 fails in transport the failure propagates out
\* of the crawler (and the task becomes FAILED with its message); a failure on
\* a later page does not.
C23_FirstPageFailurePropagates ==
  [][(/\ crawler = "WeadownScraper"
      /\ Sends
      /\ Sent.outcome = "transport")
     => (cpc' = "raised" <=> Sent.page = 1)]_vars

\* C24: in every catalog a crawler builds no two records have the same name
\* and no record has an empty name, and of two titles with the same name the
\* later one's record is the one held.
C24_UniqueNamesLastWriter ==
  /\ [](\A i, j \in 1..Len(plugins) :
          /\ plugins[i].name # <<>>
          /\ i # j => plugins[i].name # plugins[j].name)
  /\ [][\A a \in Articles :
          (/\ cpc \in {"pages", "first"}
           /\ Sends
           /\ Accepts(crawler, a)
           /\ \E arts \in PageContents :
                /\ arts # <<>>
                /\ arts[Len(arts)] = a
                /\ plugins' = ParseArticles(crawler, arts, plugins))
          => RecordOf(crawler, a) \in CatalogRecords(plugins')]_vars

\* C27: a classic-pagination crawl with page limit n fetches the pages 1..k in
\* order and without gaps, k <= n, and fetches no page after one that was not
\* found or had no article.
C27_PagesInOrderUpToLimit ==
  crawler \in Classic =>
    /\ Len(requests) <= LastPage
    /\ \A i \in 1..Len(requests) :
         /\ requests[i].page = i
         /\ i < Len(requests) => requests[i].outcome = "ok"

\* a script crawl allowed three pages that found page 2 missing, and one that
\* used its whole allowance (both are reached; the first is the witness)
C27_StoppedOnNotFound ==
  /\ crawler = "scrape_plugins_weadown"
  /\ max_pages = 3
  /\ cpc = "returned"
  /\ Len(requests) = 2
  /\ requests[2].outcome = "notfound"
  /\ plugins # <<>>

\* C28: a load-more crawl ends: it sends at most MAX_LOADS follow-ups after the
\* first page, none after a follow-up that added no record or failed in
\* transport; without a load-more element it sends no load-more request and
\* follows at most MAX_LOADS pagination links.
C28_LoadMoreBoundedAndEnds ==
  /\ [](crawler = "PluginswpScraper" =>
          /\ Len(requests) <= 1 + MAX_LOADS
          /\ \A i \in 1..Len(requests) :
               /\ requests[i].kind = "load" => control = "load_more"
               /\ requests[i].kind = "link" => control = "none"
               /\ i > 1 => requests[i].page = i)
  /\ [][(/\ crawler = "PluginswpScraper"
         /\ Sends
         /\ Sent.kind \in {"load", "link"}
         /\ Sent.outcome = "transport" \/ Len(plugins') = Len(plugins))
        => cpc' = "returned"]_vars
  /\ (crawler = "PluginswpScraper") ~> (cpc = "returned")

\* ten follow-ups that each brought a new record
C28_AllLoadsUsed ==
  /\ crawler = "PluginswpScraper"
  /\ control = "load_more"
  /\ cpc = "returned"
  /\ Len(requests) = 1 + MAX_LOADS
  /\ requests[1 + MAX_LOADS].outcome = "ok"
  /\ Len(plugins) >= MAX_LOADS

\* ------------------------------------- claims on the triggers and the runner
\* the background runs of the id that exist: started and not yet ended
LiveBackgrounds(id) ==
  {b \in Backgrounds : backgrounds[b].id = id /\ backgrounds[b].pc # "ended"}

\* C25: for each id of the web trigger at most one background run exists at a
\* time, whatever the interleaving of trigger requests and completions: a
\* trigger that arrives during a run starts nothing and answers
\* already_running.
C25_OneBackgroundRunPerId ==
  \A id \in ScraperIds : Cardinality(LiveBackgrounds(id)) <= 1

\* the runs of run_comparison that are scraping, comparing or saving
Executing ==
  {t \in RunThreads : run_threads[t] \in {"scrape", "compare", "save"}}

\* C30: in ComparisonRunner at most one comparison run executes at any time,
\* across every sequence of run_comparison_async and stop calls, also after
\* stop was called on a run that has not finished.
C30_OneComparisonRun ==
  Cardinality(Executing) <= 1
====
